---- MODULE Spec2Model ----
(***************************************************************************)
(* A model of kai_schedule: the JSON schedule parser (parser.py), the      *)
(* schedule item and repeat rules (schedule_item.py) and the entry point   *)
(* (main.py).                                                              *)
(*                                                                         *)
(* Text is modelled as a sequence of characters, one one-character string  *)
(* per character.  The module's strings are ASCII, so the four Cyrillic    *)
(* letters of the parity tokens are written by their names: "che" is the   *)
(* letter of U+0447, "ie" of U+0435, "te" of U+0442, "en" of U+043D; each  *)
(* stands for ONE character.  Fixed output text that the code never looks  *)
(* into ("FREQ=WEEKLY", "BEGIN:VCALENDAR", ...) is kept as one element.    *)
(***************************************************************************)
EXTENDS Integers, Sequences, FiniteSets, TLC

VARIABLES
    \* ---- JSONScheduleParser and its callers ----
    phase,           \* where the caller is: "start", "parsing", "returned", ...
    data,            \* self.data: the JSON mapping, in key order
    start_year,      \* self.start_year (the argument before construction)
    semester_start,  \* self.semester_start
    semester_end,    \* self.semester_end
    day_i,           \* parse: index of the weekday key being iterated
    ev_i,            \* parse: index of the event being iterated (0: at the key)
    schedule_items,  \* parse: the local list schedule_items
    result,          \* what parse returned to its caller
    error,           \* the exception that left the call, "" when none
    vevents,         \* the list of to_ics() strings
    ics_content,     \* what create_ics_calendar returned
    file_written,    \* main: schedule.ics has been written
    main_dates,      \* main: the locals start_date and end_date
    \* ---- one ScheduleItem object ----
    item,
    \* ---- one repeat rule object ----
    rule,
    rule_raised,     \* the last constructor or setter call raised ValueError
    rrule_out        \* what the last call returned, when it was to_rrule_str

parser_vars == <<phase, data, start_year, semester_start, semester_end, day_i,
                 ev_i, schedule_items, result, error, vevents, ics_content,
                 file_written, main_dates>>
vars == <<parser_vars, item, rule, rule_raised, rrule_out>>

(***************************************************************************)
(* Bounds of the model.                                                    *)
(***************************************************************************)
\* start years of the date specification: YearMin..YearMax
YearMin == 2014
YearMax == 2041
\* records under the first weekday key of a document
MaxEvents == 3
\* hours a ScheduleItem's timestamps are drawn from
MaxHours == 9
\* the largest interval given to a repeat rule
MaxInterval == 3

(***************************************************************************)
(* Characters and text.                                                    *)
(***************************************************************************)
\* A text is the sequence of its characters.  A character that a string of
\* this notation cannot hold is written by its code point, "u" and at least
\* four hexadecimal digits ("u00a0" is the no-break space, "uff19" the
\* fullwidth digit nine); the Cyrillic letters of the parity tokens are
\* written by name.
Digits == <<"0", "1", "2", "3", "4", "5", "6", "7", "8", "9">>

\* the decimal digits (category Nd) other than the ASCII ones, by script,
\* each row from zero to nine
OtherDigits ==
    <<
     <<"u0660", "u0661", "u0662", "u0663", "u0664", "u0665", "u0666", "u0667", "u0668", "u0669">>,
     <<"u06f0", "u06f1", "u06f2", "u06f3", "u06f4", "u06f5", "u06f6", "u06f7", "u06f8", "u06f9">>,
     <<"u07c0", "u07c1", "u07c2", "u07c3", "u07c4", "u07c5", "u07c6", "u07c7", "u07c8", "u07c9">>,
     <<"u0966", "u0967", "u0968", "u0969", "u096a", "u096b", "u096c", "u096d", "u096e", "u096f">>,
     <<"u09e6", "u09e7", "u09e8", "u09e9", "u09ea", "u09eb", "u09ec", "u09ed", "u09ee", "u09ef">>,
     <<"u0a66", "u0a67", "u0a68", "u0a69", "u0a6a", "u0a6b", "u0a6c", "u0a6d", "u0a6e", "u0a6f">>,
     <<"u0ae6", "u0ae7", "u0ae8", "u0ae9", "u0aea", "u0aeb", "u0aec", "u0aed", "u0aee", "u0aef">>,
     <<"u0b66", "u0b67", "u0b68", "u0b69", "u0b6a", "u0b6b", "u0b6c", "u0b6d", "u0b6e", "u0b6f">>,
     <<"u0be6", "u0be7", "u0be8", "u0be9", "u0bea", "u0beb", "u0bec", "u0bed", "u0bee", "u0bef">>,
     <<"u0c66", "u0c67", "u0c68", "u0c69", "u0c6a", "u0c6b", "u0c6c", "u0c6d", "u0c6e", "u0c6f">>,
     <<"u0ce6", "u0ce7", "u0ce8", "u0ce9", "u0cea", "u0ceb", "u0cec", "u0ced", "u0cee", "u0cef">>,
     <<"u0d66", "u0d67", "u0d68", "u0d69", "u0d6a", "u0d6b", "u0d6c", "u0d6d", "u0d6e", "u0d6f">>,
     <<"u0de6", "u0de7", "u0de8", "u0de9", "u0dea", "u0deb", "u0dec", "u0ded", "u0dee", "u0def">>,
     <<"u0e50", "u0e51", "u0e52", "u0e53", "u0e54", "u0e55", "u0e56", "u0e57", "u0e58", "u0e59">>,
     <<"u0ed0", "u0ed1", "u0ed2", "u0ed3", "u0ed4", "u0ed5", "u0ed6", "u0ed7", "u0ed8", "u0ed9">>,
     <<"u0f20", "u0f21", "u0f22", "u0f23", "u0f24", "u0f25", "u0f26", "u0f27", "u0f28", "u0f29">>,
     <<"u1040", "u1041", "u1042", "u1043", "u1044", "u1045", "u1046", "u1047", "u1048", "u1049">>,
     <<"u1090", "u1091", "u1092", "u1093", "u1094", "u1095", "u1096", "u1097", "u1098", "u1099">>,
     <<"u17e0", "u17e1", "u17e2", "u17e3", "u17e4", "u17e5", "u17e6", "u17e7", "u17e8", "u17e9">>,
     <<"u1810", "u1811", "u1812", "u1813", "u1814", "u1815", "u1816", "u1817", "u1818", "u1819">>,
     <<"u1946", "u1947", "u1948", "u1949", "u194a", "u194b", "u194c", "u194d", "u194e", "u194f">>,
     <<"u19d0", "u19d1", "u19d2", "u19d3", "u19d4", "u19d5", "u19d6", "u19d7", "u19d8", "u19d9">>,
     <<"u1a80", "u1a81", "u1a82", "u1a83", "u1a84", "u1a85", "u1a86", "u1a87", "u1a88", "u1a89">>,
     <<"u1a90", "u1a91", "u1a92", "u1a93", "u1a94", "u1a95", "u1a96", "u1a97", "u1a98", "u1a99">>,
     <<"u1b50", "u1b51", "u1b52", "u1b53", "u1b54", "u1b55", "u1b56", "u1b57", "u1b58", "u1b59">>,
     <<"u1bb0", "u1bb1", "u1bb2", "u1bb3", "u1bb4", "u1bb5", "u1bb6", "u1bb7", "u1bb8", "u1bb9">>,
     <<"u1c40", "u1c41", "u1c42", "u1c43", "u1c44", "u1c45", "u1c46", "u1c47", "u1c48", "u1c49">>,
     <<"u1c50", "u1c51", "u1c52", "u1c53", "u1c54", "u1c55", "u1c56", "u1c57", "u1c58", "u1c59">>,
     <<"ua620", "ua621", "ua622", "ua623", "ua624", "ua625", "ua626", "ua627", "ua628", "ua629">>,
     <<"ua8d0", "ua8d1", "ua8d2", "ua8d3", "ua8d4", "ua8d5", "ua8d6", "ua8d7", "ua8d8", "ua8d9">>,
     <<"ua900", "ua901", "ua902", "ua903", "ua904", "ua905", "ua906", "ua907", "ua908", "ua909">>,
     <<"ua9d0", "ua9d1", "ua9d2", "ua9d3", "ua9d4", "ua9d5", "ua9d6", "ua9d7", "ua9d8", "ua9d9">>,
     <<"ua9f0", "ua9f1", "ua9f2", "ua9f3", "ua9f4", "ua9f5", "ua9f6", "ua9f7", "ua9f8", "ua9f9">>,
     <<"uaa50", "uaa51", "uaa52", "uaa53", "uaa54", "uaa55", "uaa56", "uaa57", "uaa58", "uaa59">>,
     <<"uabf0", "uabf1", "uabf2", "uabf3", "uabf4", "uabf5", "uabf6", "uabf7", "uabf8", "uabf9">>,
     <<"uff10", "uff11", "uff12", "uff13", "uff14", "uff15", "uff16", "uff17", "uff18", "uff19">>,
     <<"u104a0", "u104a1", "u104a2", "u104a3", "u104a4", "u104a5", "u104a6", "u104a7", "u104a8", "u104a9">>,
     <<"u10d30", "u10d31", "u10d32", "u10d33", "u10d34", "u10d35", "u10d36", "u10d37", "u10d38", "u10d39">>,
     <<"u11066", "u11067", "u11068", "u11069", "u1106a", "u1106b", "u1106c", "u1106d", "u1106e", "u1106f">>,
     <<"u110f0", "u110f1", "u110f2", "u110f3", "u110f4", "u110f5", "u110f6", "u110f7", "u110f8", "u110f9">>,
     <<"u11136", "u11137", "u11138", "u11139", "u1113a", "u1113b", "u1113c", "u1113d", "u1113e", "u1113f">>,
     <<"u111d0", "u111d1", "u111d2", "u111d3", "u111d4", "u111d5", "u111d6", "u111d7", "u111d8", "u111d9">>,
     <<"u112f0", "u112f1", "u112f2", "u112f3", "u112f4", "u112f5", "u112f6", "u112f7", "u112f8", "u112f9">>,
     <<"u11450", "u11451", "u11452", "u11453", "u11454", "u11455", "u11456", "u11457", "u11458", "u11459">>,
     <<"u114d0", "u114d1", "u114d2", "u114d3", "u114d4", "u114d5", "u114d6", "u114d7", "u114d8", "u114d9">>,
     <<"u11650", "u11651", "u11652", "u11653", "u11654", "u11655", "u11656", "u11657", "u11658", "u11659">>,
     <<"u116c0", "u116c1", "u116c2", "u116c3", "u116c4", "u116c5", "u116c6", "u116c7", "u116c8", "u116c9">>,
     <<"u11730", "u11731", "u11732", "u11733", "u11734", "u11735", "u11736", "u11737", "u11738", "u11739">>,
     <<"u118e0", "u118e1", "u118e2", "u118e3", "u118e4", "u118e5", "u118e6", "u118e7", "u118e8", "u118e9">>,
     <<"u11950", "u11951", "u11952", "u11953", "u11954", "u11955", "u11956", "u11957", "u11958", "u11959">>,
     <<"u11c50", "u11c51", "u11c52", "u11c53", "u11c54", "u11c55", "u11c56", "u11c57", "u11c58", "u11c59">>,
     <<"u11d50", "u11d51", "u11d52", "u11d53", "u11d54", "u11d55", "u11d56", "u11d57", "u11d58", "u11d59">>,
     <<"u11da0", "u11da1", "u11da2", "u11da3", "u11da4", "u11da5", "u11da6", "u11da7", "u11da8", "u11da9">>,
     <<"u16a60", "u16a61", "u16a62", "u16a63", "u16a64", "u16a65", "u16a66", "u16a67", "u16a68", "u16a69">>,
     <<"u16ac0", "u16ac1", "u16ac2", "u16ac3", "u16ac4", "u16ac5", "u16ac6", "u16ac7", "u16ac8", "u16ac9">>,
     <<"u16b50", "u16b51", "u16b52", "u16b53", "u16b54", "u16b55", "u16b56", "u16b57", "u16b58", "u16b59">>,
     <<"u1d7ce", "u1d7cf", "u1d7d0", "u1d7d1", "u1d7d2", "u1d7d3", "u1d7d4", "u1d7d5", "u1d7d6", "u1d7d7">>,
     <<"u1d7d8", "u1d7d9", "u1d7da", "u1d7db", "u1d7dc", "u1d7dd", "u1d7de", "u1d7df", "u1d7e0", "u1d7e1">>,
     <<"u1d7e2", "u1d7e3", "u1d7e4", "u1d7e5", "u1d7e6", "u1d7e7", "u1d7e8", "u1d7e9", "u1d7ea", "u1d7eb">>,
     <<"u1d7ec", "u1d7ed", "u1d7ee", "u1d7ef", "u1d7f0", "u1d7f1", "u1d7f2", "u1d7f3", "u1d7f4", "u1d7f5">>,
     <<"u1d7f6", "u1d7f7", "u1d7f8", "u1d7f9", "u1d7fa", "u1d7fb", "u1d7fc", "u1d7fd", "u1d7fe", "u1d7ff">>,
     <<"u1e140", "u1e141", "u1e142", "u1e143", "u1e144", "u1e145", "u1e146", "u1e147", "u1e148", "u1e149">>,
     <<"u1e2f0", "u1e2f1", "u1e2f2", "u1e2f3", "u1e2f4", "u1e2f5", "u1e2f6", "u1e2f7", "u1e2f8", "u1e2f9">>,
     <<"u1e950", "u1e951", "u1e952", "u1e953", "u1e954", "u1e955", "u1e956", "u1e957", "u1e958", "u1e959">>,
     <<"u1fbf0", "u1fbf1", "u1fbf2", "u1fbf3", "u1fbf4", "u1fbf5", "u1fbf6", "u1fbf7", "u1fbf8", "u1fbf9">>
    >>

IsAsciiDigit(c) == \E k \in 1..Len(Digits) : Digits[k] = c

\* \d of a regular expression over str, without re.ASCII
IsDigit(c) ==
    \/ IsAsciiDigit(c)
    \/ \E r \in 1..Len(OtherDigits) : \E k \in 1..10 : OtherDigits[r][k] = c

\* int() of one decimal digit
DigitVal(c) ==
    IF IsAsciiDigit(c) THEN (CHOOSE k \in 1..Len(Digits) : Digits[k] = c) - 1
    ELSE (CHOOSE k \in 1..10 : \E r \in 1..Len(OtherDigits) : OtherDigits[r][k] = c) - 1

\* the characters c with c.isspace(): what str.strip() removes and
\* str.split() splits on
Whitespace ==
    {"\t", "\n", "u000b", "\f", "\r", "u001c", "u001d", "u001e", "u001f", " ",
     "u0085", "u00a0", "u1680", "u2000", "u2001", "u2002", "u2003", "u2004",
     "u2005", "u2006", "u2007", "u2008", "u2009", "u200a", "u2028", "u2029",
     "u202f", "u205f", "u3000"}

RECURSIVE LStrip(_)
LStrip(s) ==
    IF s # <<>> /\ Head(s) \in Whitespace THEN LStrip(Tail(s)) ELSE s

RECURSIVE RStrip(_)
RStrip(s) ==
    IF s # <<>> /\ s[Len(s)] \in Whitespace
    THEN RStrip(SubSeq(s, 1, Len(s) - 1))
    ELSE s

\* str.strip()
Strip(s) == RStrip(LStrip(s))

\* the longest prefix of s without a character of seps
RECURSIVE TakeUntil(_, _)
TakeUntil(s, seps) ==
    IF s = <<>> \/ Head(s) \in seps THEN <<>>
    ELSE <<Head(s)>> \o TakeUntil(Tail(s), seps)

\* str.split(): the maximal runs of non-whitespace characters, in order
RECURSIVE Split(_)
Split(s) ==
    LET t == LStrip(s)
        w == TakeUntil(t, Whitespace)
    IN IF t = <<>> THEN <<>>
       ELSE <<w>> \o Split(SubSeq(t, Len(w) + 1, Len(t)))

\* the fields of s between occurrences of the character sep
RECURSIVE Fields(_, _)
Fields(s, sep) ==
    LET w == TakeUntil(s, {sep})
    IN IF Len(w) = Len(s) THEN <<w>>
       ELSE <<w>> \o Fields(SubSeq(s, Len(w) + 2, Len(s)), sep)

AllDigits(s) == \A k \in 1..Len(s) : IsDigit(s[k])

RECURSIVE NumVal(_)
NumVal(s) ==
    IF s = <<>> THEN 0
    ELSE NumVal(SubSeq(s, 1, Len(s) - 1)) * 10 + DigitVal(s[Len(s)])

\* int() of a text of digits that may have blanks around it
IntOf(s) == NumVal(Strip(s))

InRange(c, lo, hi) == IsAsciiDigit(c) /\ DigitVal(c) >= lo /\ DigitVal(c) <= hi

\* the directives of strptime, as _strptime's regular expressions match a
\* whole field: %H is 2[0-3]|[0-1]\d|\d
MatchesHour(s) ==
    \/ Len(s) = 2 /\ s[1] = "2" /\ InRange(s[2], 0, 3)
    \/ Len(s) = 2 /\ InRange(s[1], 0, 1) /\ IsDigit(s[2])
    \/ Len(s) = 1 /\ IsDigit(s[1])

\* %M is [0-5]\d|\d
MatchesMinute(s) ==
    \/ Len(s) = 2 /\ InRange(s[1], 0, 5) /\ IsDigit(s[2])
    \/ Len(s) = 1 /\ IsDigit(s[1])

\* %d is 3[0-1]|[1-2]\d|0[1-9]|[1-9]| [1-9]
MatchesDay(s) ==
    \/ Len(s) = 2 /\ s[1] = "3" /\ InRange(s[2], 0, 1)
    \/ Len(s) = 2 /\ InRange(s[1], 1, 2) /\ IsDigit(s[2])
    \/ Len(s) = 2 /\ s[1] = "0" /\ InRange(s[2], 1, 9)
    \/ Len(s) = 1 /\ InRange(s[1], 1, 9)
    \/ Len(s) = 2 /\ s[1] = " " /\ InRange(s[2], 1, 9)

\* %m is 1[0-2]|0[1-9]|[1-9]
MatchesMonth(s) ==
    \/ Len(s) = 2 /\ s[1] = "1" /\ InRange(s[2], 0, 2)
    \/ Len(s) = 2 /\ s[1] = "0" /\ InRange(s[2], 1, 9)
    \/ Len(s) = 1 /\ InRange(s[1], 1, 9)

\* %Y is \d\d\d\d
MatchesYear(s) == Len(s) = 4 /\ AllDigits(s)

Pad2(n) == <<Digits[((n \div 10) % 10) + 1], Digits[(n % 10) + 1]>>

\* str(n) of an integer, as an f-string renders it
RECURSIVE Decimal(_)
Decimal(n) ==
    IF n < 0 THEN <<"-">> \o Decimal(0 - n)
    ELSE IF n < 10 THEN <<Digits[n + 1]>>
    ELSE Decimal(n \div 10) \o <<Digits[(n % 10) + 1]>>

(***************************************************************************)
(* Dates: datetime's proleptic Gregorian arithmetic.  Every timestamp of   *)
(* the program carries the same zone (Europe/Moscow), so comparisons and   *)
(* timedelta arithmetic are those of the wall clock.                       *)
(***************************************************************************)
IsLeap(y) == y % 4 = 0 /\ (y % 100 # 0 \/ y % 400 = 0)

DaysInMonth(y, m) ==
    IF m = 2 THEN (IF IsLeap(y) THEN 29 ELSE 28)
    ELSE IF m \in {4, 6, 9, 11} THEN 30 ELSE 31

DaysBeforeYear(y) ==
    (y - 1) * 365 + (y - 1) \div 4 - (y - 1) \div 100 + (y - 1) \div 400

RECURSIVE DaysBeforeMonth(_, _)
DaysBeforeMonth(y, m) ==
    IF m = 1 THEN 0 ELSE DaysBeforeMonth(y, m - 1) + DaysInMonth(y, m - 1)

\* date.toordinal()
ToOrdinal(dt) ==
    DaysBeforeYear(dt.year) + DaysBeforeMonth(dt.year, dt.month) + dt.day

\* date.weekday(): Monday is 0
WeekdayOf(dt) == (ToOrdinal(dt) + 6) % 7

\* the fields datetime() takes: years 1..9999 and a day of the calendar
InRangeOfDateTime(y, m, d, hh, mm) ==
    /\ y \in 1..9999
    /\ m \in 1..12
    /\ d \in 1..DaysInMonth(y, m)
    /\ hh \in 0..23
    /\ mm \in 0..59

\* datetime(y, m, d, hh, mm): raises is TRUE when the call raises ValueError,
\* and then there is no timestamp
DateTime(y, m, d, hh, mm) ==
    [year |-> y, month |-> m, day |-> d, hour |-> hh, minute |-> mm, second |-> 0,
     raises |-> ~InRangeOfDateTime(y, m, d, hh, mm)]

\* the day after dt; past 31 December 9999 the sum raises OverflowError
\* (raises is TRUE)
NextDay(dt) ==
    IF dt.day < DaysInMonth(dt.year, dt.month)
    THEN [dt EXCEPT !.day = dt.day + 1]
    ELSE IF dt.month < 12
         THEN [dt EXCEPT !.month = dt.month + 1, !.day = 1]
         ELSE [dt EXCEPT !.year = dt.year + 1, !.month = 1, !.day = 1,
                         !.raises = dt.raises \/ dt.year + 1 > 9999]

\* dt + timedelta(days=n)
RECURSIVE AddDays(_, _)
AddDays(dt, n) == IF n = 0 THEN dt ELSE AddDays(NextDay(dt), n - 1)

\* dt + timedelta(minutes=n)
AddMinutes(dt, n) ==
    LET total == dt.hour * 60 + dt.minute + n
        day   == AddDays(dt, total \div 1440)
    IN [day EXCEPT !.hour = (total % 1440) \div 60, !.minute = total % 60]

\* the second of the day
SecondOfDay(dt) == (dt.hour * 60 + dt.minute) * 60 + dt.second

\* a < b for two timestamps of the same zone
Before(a, b) ==
    \/ ToOrdinal(a) < ToOrdinal(b)
    \/ ToOrdinal(a) = ToOrdinal(b) /\ SecondOfDay(a) < SecondOfDay(b)

\* the ordinal of the Monday of ISO week 1 of year y
IsoWeek1Monday(y) ==
    LET firstday     == DaysBeforeYear(y) + 1
        firstweekday == (firstday + 6) % 7
        monday       == firstday - firstweekday
    IN IF firstweekday > 3 THEN monday + 7 ELSE monday

\* date.isocalendar()[1]
IsoWeek(dt) ==
    LET today == ToOrdinal(dt)
        diff  == today - IsoWeek1Monday(dt.year)
    IN IF diff < 0
       THEN (today - IsoWeek1Monday(dt.year - 1)) \div 7 + 1
       ELSE IF diff \div 7 >= 52 /\ today >= IsoWeek1Monday(dt.year + 1)
            THEN 1
            ELSE diff \div 7 + 1

\* datetime.strftime('%Y%m%dT%H%M%S')
StrfTime(dt) ==
    Decimal(dt.year) \o Pad2(dt.month) \o Pad2(dt.day) \o <<"T">>
        \o Pad2(dt.hour) \o Pad2(dt.minute) \o Pad2(dt.second)

(***************************************************************************)
(* schedule_item.py: repeat ends, weekdays, repeat rules.                  *)
(***************************************************************************)
NoEnd == [kind |-> "None"]
EndByDate(until) == [kind |-> "EndByDate", until |-> until]
\* the count setter accepts the value
CountOk(value) == ~(value < 1)
\* EndByCount(count): __init__ goes through the count setter, which raises
\* for count < 1, and then no object comes to exist
EndByCount(count) ==
    [kind |-> "EndByCount", count |-> count, raises |-> ~CountOk(count)]
\* the construction of the end object raised
EndRaises(end) == end.kind = "EndByCount" /\ end.raises

\* EndByDate.to_rrule_arg_str / EndByCount.to_rrule_arg_str
to_rrule_arg_str(end) ==
    IF end.kind = "EndByDate" THEN <<"UNTIL=">> \o StrfTime(end.until)
    ELSE <<"COUNT=">> \o Decimal(end.count)

\* Weekday.ical, indexed by the weekday's value + 1
WeekdayIcal == <<"MO", "TU", "WE", "TH", "FR", "SA", "SU">>

ical(d) == WeekdayIcal[d + 1]

\* sep.join(parts)
RECURSIVE Join(_, _)
Join(parts, sep) ==
    IF parts = <<>> THEN <<>>
    ELSE IF Len(parts) = 1 THEN parts[1]
    ELSE parts[1] \o <<sep>> \o Join(Tail(parts), sep)

NoRule == [kind |-> "None"]
DailyRepeatRule(interval, end) ==
    [kind |-> "Daily", interval |-> interval, end |-> end]
WeeklyRepeatRule(weekdays, interval, end) ==
    [kind |-> "Weekly", weekdays |-> weekdays, interval |-> interval, end |-> end]
\* bymonthday 0 stands for None
MonthlyRepeatRule(bymonthday, interval, end) ==
    [kind |-> "Monthly", bymonthday |-> bymonthday, interval |-> interval, end |-> end]
YearlyRepeatRule(interval, end) ==
    [kind |-> "Yearly", interval |-> interval, end |-> end]

\* a setter that turns away negative values only
IntervalOk_nonnegative(value) == ~(value < 0)

\* the interval setter accepts the value
IntervalOk(value) == ~(value < 1)

\* the four _to_rrule_str_args
to_rrule_str_args(r) ==
    IF r.kind = "Daily" THEN << <<"FREQ=DAILY">> >>
    ELSE IF r.kind = "Weekly" THEN
        << <<"FREQ=WEEKLY">> >> \o
        (IF r.weekdays # <<>>
         THEN << <<"BYDAY=">> \o Join([k \in 1..Len(r.weekdays) |-> <<ical(r.weekdays[k])>>], ",") >>
         ELSE <<>>)
    ELSE IF r.kind = "Monthly" THEN
        << <<"FREQ=MONTHLY">> >> \o
        (IF r.bymonthday # 0
         THEN << <<"BYMONTHDAY=">> \o Decimal(r.bymonthday) >>
         ELSE <<>>)
    ELSE << <<"FREQ=YEARLY">> >>

\* BaseRepeatRule.to_rrule_str
to_rrule_str(r) ==
    LET parts == to_rrule_str_args(r)
                     \o << <<"INTERVAL=">> \o Decimal(r.interval) >>
                     \o (IF r.end.kind # "None" THEN <<to_rrule_arg_str(r.end)>> ELSE <<>>)
    IN <<"FREQ=WEEKLY", ";">> \o Join(parts, ";")

(***************************************************************************)
(* schedule_item.py: ScheduleItem and the default formatter.               *)
(***************************************************************************)
\* ScheduleItem._validate_dates: TRUE when it raises ValueError
ValidateDatesRaises(initialized, start, end) ==
    initialized /\ ~Before(start, end)

\* ScheduleItem.__init__: the fields are assigned with _initialized False,
\* so the setters' checks pass; _validate runs once at the end
ScheduleItem(start, end, subject, lesson_type, audience, building, teacher, department, repeat_rule) ==
    [raises |-> ValidateDatesRaises(TRUE, start, end),
     start_datetime |-> start, end_datetime |-> end,
     subject |-> subject, lesson_type |-> lesson_type, audience |-> audience,
     building |-> building, teacher |-> teacher, department |-> department,
     repeat_rule |-> repeat_rule]

\* DefaultScheduleItemFormatter.format_header
format_header(it) ==
    it.building \o <<" ", "-", " ">> \o it.audience \o <<" ", "|", " ">>
        \o it.lesson_type \o <<" ", "-", " ">> \o it.subject

\* DefaultScheduleItemFormatter.format_description; "\n" is the line break and
\* the six Russian labels are written in Latin letters
format_description(it) ==
    <<"Disciplina: ">> \o it.subject \o <<"\n", "Vid zanyatiya: ">> \o it.lesson_type
        \o <<"\n", "Zdanie: ">> \o it.building
        \o <<"\n", "Auditoriya: ">> \o it.audience
        \o <<"\n", "Prepodavatel: ">> \o it.teacher
        \o <<"\n", "Kafedra: ">> \o it.department

(***************************************************************************)
(* parser.py: JSONScheduleParser.                                          *)
(***************************************************************************)
\* the parity tokens of dayDate: "che ie te" (even) and "en ie che" (odd)
Chet == <<"che", "ie", "te">>
Nechet == <<"en", "ie", "che">>

\* self.weekday_map: the Weekday value of each recognized key
weekday_map == [k \in {"1", "2", "3", "4", "5", "6", "7"} |->
                   CASE k = "1" -> 0 [] k = "2" -> 1 [] k = "3" -> 2 [] k = "4" -> 3
                     [] k = "5" -> 4 [] k = "6" -> 5 [] k = "7" -> 6]

\* JSONScheduleParser.__init__: the semester window of a start year
SemesterStartOf(year) == DateTime(year, 9, 1, 0, 0)
SemesterEndOf(year) == DateTime(year, 12, 31, 0, 0)

\* JSONScheduleParser._is_even_week
is_even_week(date) == IsoWeek(date) % 2 = 0

\* datetime.strptime(s, "%H:%M"): the fields of the directives, or a failure
StrpTimeHM(s) ==
    LET f  == Fields(s, ":")
        ok == /\ Len(f) = 2
              /\ MatchesHour(f[1])
              /\ MatchesMinute(f[2])
    IN [raises |-> ~ok,
        hour   |-> IF ok THEN NumVal(f[1]) ELSE 0,
        minute |-> IF ok THEN NumVal(f[2]) ELSE 0]

\* _parse_time falling back to midnight instead of raising
parse_time_lenient(time_str) ==
    [StrpTimeHM(Strip(time_str)) EXCEPT !.raises = FALSE]

\* JSONScheduleParser._parse_time
parse_time(time_str) == StrpTimeHM(Strip(time_str))

\* datetime.strptime(s, "%d.%m.%Y"): the date, or a failure
StrpTimeDMY(s) ==
    LET f  == Fields(s, ".")
        re == /\ Len(f) = 3
              /\ MatchesDay(f[1])
              /\ MatchesMonth(f[2])
              /\ MatchesYear(f[3])
        ok == /\ re
              /\ NumVal(f[3]) >= 1
              /\ IntOf(f[1]) <= DaysInMonth(NumVal(f[3]), NumVal(f[2]))
    IN [raises |-> ~ok,
        date   |-> IF ok THEN DateTime(NumVal(f[3]), NumVal(f[2]), IntOf(f[1]), 0, 0)
                   ELSE DateTime(1, 1, 1, 0, 0)]

\* _parse_dates losing the order of the fragments
parse_dates_reversed(date_str, year) ==
    LET frags  == Split(Strip(date_str))
        n      == Len(frags)
        parsed == [k \in 1..n |->
                      StrpTimeDMY(frags[n + 1 - k] \o <<".">> \o Decimal(year))]
    IN [raises |-> \E k \in 1..n : parsed[k].raises,
        dates  |-> [k \in 1..n |-> parsed[k].date]]

\* JSONScheduleParser._parse_dates: the dates of the fragments, in order
parse_dates(date_str, year) ==
    LET frags  == Split(Strip(date_str))
        parsed == [k \in 1..Len(frags) |->
                      StrpTimeDMY(frags[k] \o <<".">> \o Decimal(year))]
    IN [raises |-> \E k \in 1..Len(frags) : parsed[k].raises,
        dates  |-> [k \in 1..Len(frags) |-> parsed[k].date]]

\* the loop of _get_first_occurrence: the first date from current_date on that
\* falls on target_weekday
RECURSIVE NextWeekday(_, _)
NextWeekday(current_date, target_weekday) ==
    IF WeekdayOf(current_date) # target_weekday
    THEN NextWeekday(AddDays(current_date, 1), target_weekday)
    ELSE current_date

\* get_first_occurrence without the step to the next week
get_first_occurrence_no_parity(target_weekday, start_date, is_even) ==
    NextWeekday(start_date, target_weekday)

\* JSONScheduleParser._get_first_occurrence
get_first_occurrence(target_weekday, start_date, is_even) ==
    LET current_date == NextWeekday(start_date, target_weekday)
    IN IF is_even # is_even_week(current_date)
       THEN AddDays(current_date, 7)
       ELSE current_date

\* dict.get with a default that is not empty
Get_defaulted(event, key) == IF key \in DOMAIN event THEN event[key] ELSE <<"?">>

\* dict.get(key, "")
Get(event, key) == IF key \in DOMAIN event THEN event[key] ELSE <<>>

\* datetime.combine(date, time).replace(tzinfo=...)
Combine(date, t) == [date EXCEPT !.hour = t.hour, !.minute = t.minute, !.second = 0]

\* the lesson's length in minutes
LessonMinutes == 90

\* the body of parse's inner loop for one event of a recognized weekday:
\* what happens (kind) and the items it appends; an event that raises has
\* appended the items made before the one that failed
ParseEvent(event, target_weekday) ==
    LET subject     == Strip(Get(event, "disciplName"))
        lesson_type == Strip(Get(event, "disciplType"))
        audience    == Strip(Get(event, "audNum"))
        building    == Strip(Get(event, "buildNum"))
        teacher     == Strip(Get(event, "prepodName"))
        department  == Strip(Get(event, "orgUnitName"))
        time_str    == Strip(Get(event, "dayTime"))
        date_str    == Strip(Get(event, "dayDate"))
        complete    == \A f \in {subject, lesson_type, audience, building,
                                 teacher, department, time_str} : f # <<>>
        start_time  == parse_time(time_str)
        NewItem(date, repeat_rule) ==
            LET start_datetime == Combine(date, start_time)
            IN ScheduleItem(start_datetime, AddMinutes(start_datetime, LessonMinutes),
                            subject, lesson_type, audience, building, teacher,
                            department, repeat_rule)
        Failed(it) == it.end_datetime.raises \/ it.raises
        \* the items are made and appended one by one: the first that fails
        \* ends the loop, those before it are already in the list
        Outcome(kind, items) ==
            IF \E k \in 1..Len(items) : Failed(items[k])
            THEN LET first == CHOOSE k \in 1..Len(items) :
                                 /\ Failed(items[k])
                                 /\ \A j \in 1..(k - 1) : ~Failed(items[j])
                 IN [kind  |-> IF items[first].end_datetime.raises
                               THEN "overflow_error" ELSE "item_error",
                     items |-> SubSeq(items, 1, first - 1)]
            ELSE [kind |-> kind, items |-> items]
    IN IF ~complete THEN [kind |-> "skipped", items |-> <<>>]
       ELSE IF start_time.raises THEN [kind |-> "time_error", items |-> <<>>]
       ELSE IF date_str \in {Chet, Nechet} THEN
           Outcome("parity",
               <<NewItem(get_first_occurrence(target_weekday, semester_start,
                                              date_str = Chet),
                         WeeklyRepeatRule(<<target_weekday>>, 2,
                                          EndByDate(semester_end)))>>)
       ELSE IF date_str # <<>> THEN
           LET dates == parse_dates(date_str, start_year)
           IN IF dates.raises THEN [kind |-> "date_error", items |-> <<>>]
              ELSE Outcome("dates",
                       [k \in 1..Len(dates.dates) |-> NewItem(dates.dates[k], NoRule)])
       ELSE
           Outcome("weekly",
               <<NewItem(get_first_occurrence(target_weekday, semester_start,
                                              is_even_week(semester_start)),
                         WeeklyRepeatRule(<<target_weekday>>, 1,
                                          EndByDate(semester_end)))>>)

(***************************************************************************)
(* parser.py: ICSScheduleItem.to_ics and create_ics_calendar.  A text is a *)
(* flat sequence; "\r\n" and "\n" are its line breaks.                     *)
(*                                                                         *)
(* to_ics fills an Event of the icalendar library and returns the text the *)
(* library renders for it.  The library is not part of the repository:    *)
(* Event is what the code hands over, to_ical and EscapeText describe the  *)
(* event block of the specification (one VEVENT, one content line for each *)
(* property added), and whether the library takes a recurrence rule given  *)
(* as a text is left open (add_rrule_outcomes).                            *)
(***************************************************************************)
\* the properties to_ics adds to the Event, with the default formatter; the
\* recurrence rule is added only when the item has one, as a text
Event(it) ==
    [summary     |-> format_header(it),
     dtstart     |-> it.start_datetime,
     dtend       |-> it.end_datetime,
     location    |-> it.building \o <<",", " ">> \o it.audience,
     description |-> format_description(it),
     rrule       |-> IF it.repeat_rule.kind # "None"
                     THEN <<to_rrule_str(it.repeat_rule)>>
                     ELSE <<>>]

\* what event.add("rrule", <text>) may do: the code passes the rule as a
\* text, and the library decides whether to take it or to raise
add_rrule_outcomes == {"added", "raises"}

\* the escaping of a TEXT value in an event block: a line break inside a
\* value never breaks the content line
RECURSIVE EscapeText(_)
EscapeText(s) ==
    IF s = <<>> THEN <<>>
    ELSE (CASE Head(s) = "\n" -> <<"\\", "n">>
            [] Head(s) = "," -> <<"\\", ",">>
            [] Head(s) = ";" -> <<"\\", ";">>
            [] Head(s) = "\\" -> <<"\\", "\\">>
            [] OTHER -> <<Head(s)>>) \o EscapeText(Tail(s))

\* event.to_ical().decode("utf-8"): the event block alone, one content line
\* per property in the order added, each ended by "\r\n"
to_ical(event) ==
    <<"BEGIN:VEVENT", "\r\n">>
    \o <<"SUMMARY:">> \o EscapeText(event.summary) \o <<"\r\n">>
    \o <<"DTSTART;TZID=Europe/Moscow:">> \o StrfTime(event.dtstart) \o <<"\r\n">>
    \o <<"DTEND;TZID=Europe/Moscow:">> \o StrfTime(event.dtend) \o <<"\r\n">>
    \o <<"LOCATION:">> \o EscapeText(event.location) \o <<"\r\n">>
    \o <<"DESCRIPTION:">> \o EscapeText(event.description) \o <<"\r\n">>
    \o (IF event.rrule # <<>>
        THEN <<"RRULE:">> \o event.rrule[1] \o <<"\r\n">>
        ELSE <<>>)
    \o <<"END:VEVENT", "\r\n">>

\* ICSScheduleItem.to_ics, when the library has taken every property
to_ics(it) == to_ical(Event(it))

\* create_ics_calendar without the footer line
create_ics_calendar_unterminated(events) ==
    Join(<< <<"BEGIN:VCALENDAR">>, <<"VERSION:2.0">>,
            <<"PRODID:-//KAI Schedule Parser//EN">> >> \o events, "\n")

\* create_ics_calendar
create_ics_calendar(events) ==
    LET lines == << <<"BEGIN:VCALENDAR">>, <<"VERSION:2.0">>,
                    <<"PRODID:-//KAI Schedule Parser//EN">> >>
                 \o events
                 \o << <<"END:VCALENDAR">> >>
    IN Join(lines, "\n")

(***************************************************************************)
(* The documents and records the parser is run on.                         *)
(***************************************************************************)
T0900 == <<"0", "9", ":", "0", "0">>
T1330 == <<"\n", "1", "3", ":", "3", "0", "u00a0">>
T0000 == <<"0", ":", "0", "0">>
T2330 == <<"2", "3", ":", "3", "0">>
T2229 == <<"2", "2", ":", "2", "9">>
T2230 == <<"2", "2", ":", "3", "0">>
TRange == <<"0", "9", ":", "0", "0", "-", "1", "0", ":", "3", "0">>
TBad == <<"9", "h", "0", "0">>
\* 19:05 with a fullwidth nine and an Arabic-Indic five
TWide == <<"1", "uff19", ":", "0", "u0665">>

ChetPadded == <<" ">> \o Chet \o <<"\t">>
D0509x1209 == <<"0", "5", ".", "0", "9", " ", "\n", "1", "2", ".", "0", "9">>
D2902 == <<"2", "9", ".", "0", "2">>
D5x9 == <<"5", ".", "9">>
D3112 == <<"3", "1", ".", "1", "2">>
D3012x3112 == <<"3", "0", ".", "1", "2", " ", "3", "1", ".", "1", "2">>
\* 19.09 with a fullwidth nine
DWide == <<"1", "uff19", ".", "0", "9">>
DBad == <<"3", "1", ".", "0", "9">>
DMixed == <<"0", "5", ".", "0", "9", " ">> \o Chet

RequiredFields == {"disciplName", "disciplType", "audNum", "buildNum",
                   "prepodName", "orgUnitName", "dayTime"}

Record(time_str, date_str) ==
    [disciplName |-> <<"M", "a">>, disciplType |-> <<"l">>, audNum |-> <<" ", "1">>,
     buildNum |-> <<"2">>, prepodName |-> <<"I", ",", "P">>, orgUnitName |-> <<"C">>,
     dayTime |-> time_str, dayDate |-> date_str]

Without(event, key) == [f \in DOMAIN event \ {key} |-> event[f]]

Blank(event, key) == [event EXCEPT ![key] = <<" ", "\t", "u00a0">>]

\* a record is incomplete when a required field is missing or blank
Incomplete(event) ==
    \E f \in RequiredFields : f \notin DOMAIN event \/ Strip(event[f]) = <<>>

SeqUpTo(n, S) == UNION {[1..k -> S] : k \in 0..n}

AllKeys == {"1", "2", "3", "4", "5", "6", "7", "8"}

Day(key, events) == [key |-> key, events |-> events]

\* one record under one key: every weekday, every kind of date field
DateEvents ==
    {Record(T0900, Chet), Record(T1330, Nechet), Record(T2330, ChetPadded),
     Record(T0900, <<>>), Record(T0000, <<>>), Without(Record(T1330, Chet), "dayDate"),
     Record(T0900, D0509x1209), Record(T0900, D2902), Record(T0900, D5x9),
     Record(T0900, DMixed), Record(TRange, Chet), Record(TWide, DWide),
     Record(T2330, D3112), Record(T2330, D3012x3112), Record(T2229, D3112),
     Record(T2230, D3112),
     Without(Record(T0900, Chet), "prepodName")}

DateDocuments == {<<Day(k, <<e>>)>> : k \in AllKeys, e \in DateEvents}

\* several records under a key, then possibly a second key
RecordEvents ==
    {Record(T0900, Chet), Record(T1330, D0509x1209),
     Without(Record(T0900, Nechet), "prepodName"), Blank(Record(TBad, Chet), "audNum"),
     Record(TBad, Nechet), Record(T0900, DBad)}

SecondDays ==
    {<<>>, <<Day("5", <<Record(T0900, <<>>)>>)>>, <<Day("8", <<Record(TBad, Chet)>>)>>}

\* a complete record before and after a record with one required field
\* missing, or blank
FieldDocuments ==
    {<<Day("1", <<Record(T0900, Chet), e, Record(T1330, D5x9)>>)>> :
        e \in {Without(Record(T0900, Chet), f) : f \in RequiredFields}
              \cup {Blank(Record(T0900, Chet), f) : f \in RequiredFields}}

RecordDocuments ==
    {<<Day(k, es)>> \o tl :
        k \in {"2", "9"}, es \in SeqUpTo(MaxEvents, RecordEvents), tl \in SecondDays}
    \cup FieldDocuments

RecordYearSet == {2024, 2025}

\* the years at the ends of what datetime and "%Y" take: no year 0, no
\* year of three digits in a date text, no day after 31 December 9999
EdgeYears == {0, 999, 9999}

\* two records under one key, the first of which may already end the parse
\* in an edge year
EdgeDocuments ==
    {<<Day("3", <<a, b>>)>> :
        a \in {Record(T2330, D3012x3112), Record(T0900, D0509x1209),
               Record(T0900, Chet)},
        b \in {Record(TBad, Chet), Record(T0900, DBad), Record(T1330, <<>>)}}

\* what main may read from a prompt: Enter, a date DD.MM.YYYY (some of them
\* not in the calendar), a date without zeros, one after a blank, one with a
\* fullwidth digit, one before a blank, no date
MainAnswers ==
    {<<>>}
    \cup {Pad2(d) \o <<".">> \o Pad2(m) \o <<".">> \o Decimal(y) :
              d \in {1, 29, 31}, m \in {2, 9, 12}, y \in {2025, 2026}}
    \cup {<<"1", ".", "9", ".", "2", "0", "2", "5">>,
          <<" ", "5", ".", "0", "9", ".", "2", "0", "2", "5">>,
          <<"1", "uff19", ".", "0", "9", ".", "2", "0", "2", "5">>,
          <<"0", "5", ".", "0", "9", ".", "2", "0", "2", "5", " ">>,
          <<"x">>}
MainInputs == MainAnswers \X MainAnswers
DefaultStart == <<"0", "2", ".", "0", "2", ".", "2", "0", "2", "6">>
DefaultEnd == <<"3", "1", ".", "0", "5", ".", "2", "0", "2", "6">>

NoDate == [year |-> 0, month |-> 0, day |-> 0, hour |-> 0, minute |-> 0, second |-> 0,
           raises |-> FALSE]
NoDates == [set |-> FALSE, start_date |-> NoDate, end_date |-> NoDate]
NoResult == [returned |-> FALSE, items |-> <<>>]
NoItem == [live |-> FALSE, raised |-> FALSE, start_datetime |-> NoDate,
           end_datetime |-> NoDate]

(***************************************************************************)
(* The parser and its callers.                                             *)
(***************************************************************************)
ParserIdle(p, doc, year) ==
    /\ phase = p
    /\ data = doc
    /\ start_year = year
    /\ semester_start = NoDate
    /\ semester_end = NoDate
    /\ day_i = 0
    /\ ev_i = 0
    /\ schedule_items = <<>>
    /\ result = NoResult
    /\ error = ""
    /\ vevents = <<>>
    /\ ics_content = <<>>
    /\ file_written = FALSE
    /\ main_dates = NoDates

ObjectsIdle ==
    /\ item = NoItem
    /\ rule = NoRule
    /\ rule_raised = FALSE
    /\ rrule_out = <<>>

\* main: the reading of ./local_files/r.json, which raises FileNotFoundError
\* when the file is not there; then the prompts, the two strptime calls and
\* the construction of the parser with the keywords start_date and end_date,
\* which __init__ does not have: the call raises TypeError, and nothing
\* after it runs
main(file_exists, start_in, end_in) ==
    /\ phase = "start"
    /\ LET start_date == StrpTimeDMY(IF start_in = <<>> THEN DefaultStart ELSE start_in)
           end_date   == StrpTimeDMY(IF end_in = <<>> THEN DefaultEnd ELSE end_in)
       IN IF ~file_exists
          THEN /\ error' = "FileNotFoundError"
               /\ main_dates' = NoDates
          ELSE IF start_date.raises \/ end_date.raises
          THEN /\ error' = "ValueError"
               /\ main_dates' = NoDates
          ELSE /\ error' = "TypeError"
               /\ main_dates' = [set |-> TRUE, start_date |-> start_date.date,
                                 end_date |-> end_date.date]
    /\ phase' = "main_failed"
    /\ UNCHANGED <<data, start_year, semester_start, semester_end, day_i, ev_i,
                   schedule_items, result, vevents, ics_content, file_written>>
    /\ UNCHANGED <<item, rule, rule_raised, rrule_out>>

\* JSONScheduleParser(json_content, start_year): datetime(start_year, 9, 1)
\* raises ValueError for a year outside 1..9999, and no parser comes to exist
NewParser ==
    /\ phase = "start"
    /\ IF SemesterStartOf(start_year).raises \/ SemesterEndOf(start_year).raises
       THEN /\ phase' = "construct_failed"
            /\ error' = "ValueError"
            /\ UNCHANGED <<semester_start, semester_end>>
       ELSE /\ phase' = "constructed"
            /\ error' = error
            /\ semester_start' = SemesterStartOf(start_year)
            /\ semester_end' = SemesterEndOf(start_year)
    /\ UNCHANGED <<data, start_year, day_i, ev_i, schedule_items, result,
                   vevents, ics_content, file_written, main_dates>>
    /\ UNCHANGED <<item, rule, rule_raised, rrule_out>>

ParseUnchanged ==
    /\ UNCHANGED <<data, start_year, semester_start, semester_end, vevents,
                   ics_content, file_written, main_dates>>
    /\ UNCHANGED <<item, rule, rule_raised, rrule_out>>

\* parse is called: schedule_items = []
ParseCall ==
    /\ phase = "constructed"
    /\ phase' = "parsing"
    /\ schedule_items' = <<>>
    /\ day_i' = 1
    /\ ev_i' = 0
    /\ UNCHANGED <<result, error>>
    /\ ParseUnchanged

AtKey == phase = "parsing" /\ day_i <= Len(data) /\ ev_i = 0
AtEvent == phase = "parsing" /\ day_i <= Len(data) /\ ev_i >= 1

\* the outer loop meets a key that is not in weekday_map: continue
ParseUnknownDay ==
    /\ AtKey
    /\ data[day_i].key \notin DOMAIN weekday_map
    /\ day_i' = day_i + 1
    /\ UNCHANGED <<phase, ev_i, schedule_items, result, error>>
    /\ ParseUnchanged

\* the outer loop meets a recognized key: the inner loop starts
ParseKnownDay ==
    /\ AtKey
    /\ data[day_i].key \in DOMAIN weekday_map
    /\ IF data[day_i].events = <<>>
       THEN day_i' = day_i + 1 /\ ev_i' = 0
       ELSE day_i' = day_i /\ ev_i' = 1
    /\ UNCHANGED <<phase, schedule_items, result, error>>
    /\ ParseUnchanged

\* the inner loop goes on to the next event, or the outer loop to the next key
NextEvent ==
    IF ev_i < Len(data[day_i].events)
    THEN day_i' = day_i /\ ev_i' = ev_i + 1
    ELSE day_i' = day_i + 1 /\ ev_i' = 0

CurrentOutcome ==
    ParseEvent(data[day_i].events[ev_i], weekday_map[data[day_i].key])

\* a record with a required field missing or blank: warning, continue
ParseEventSkipped ==
    /\ AtEvent
    /\ CurrentOutcome.kind = "skipped"
    /\ NextEvent
    /\ UNCHANGED <<phase, schedule_items, result, error>>
    /\ ParseUnchanged

\* _parse_time, _parse_dates or ScheduleItem raises ValueError, or the sum
\* start_datetime + duration raises OverflowError: it leaves parse.  The
\* list holds what was appended until then, the entries of the earlier
\* fragments of this record among them; nothing is returned
ParseEventRaises ==
    /\ AtEvent
    /\ CurrentOutcome.kind \in {"time_error", "date_error", "item_error", "overflow_error"}
    /\ phase' = "raised"
    /\ error' = IF CurrentOutcome.kind = "overflow_error" THEN "OverflowError"
                ELSE "ValueError"
    /\ schedule_items' = schedule_items \o CurrentOutcome.items
    /\ UNCHANGED <<day_i, ev_i, result>>
    /\ ParseUnchanged

\* the items of the branch taken put before those already collected
Appends_prepended(kind) ==
    /\ CurrentOutcome.kind = kind
    /\ schedule_items' = CurrentOutcome.items \o schedule_items
    /\ NextEvent
    /\ UNCHANGED <<phase, result, error>>
    /\ ParseUnchanged

\* schedule_items.append(item) for the items of the branch taken
Appends(kind) ==
    /\ CurrentOutcome.kind = kind
    /\ schedule_items' = schedule_items \o CurrentOutcome.items
    /\ NextEvent
    /\ UNCHANGED <<phase, result, error>>
    /\ ParseUnchanged

\* date_str is a parity token
ParseEventParity ==
    /\ AtEvent
    /\ Appends("parity")

\* date_str is a list of dates
ParseEventDates ==
    /\ AtEvent
    /\ Appends("dates")

\* date_str is empty
ParseEventWeekly ==
    /\ AtEvent
    /\ Appends("weekly")

\* return schedule_items
ParseReturn ==
    /\ phase = "parsing"
    /\ day_i > Len(data)
    /\ phase' = "returned"
    /\ result' = [returned |-> TRUE, items |-> schedule_items]
    /\ UNCHANGED <<day_i, ev_i, schedule_items, error>>
    /\ ParseUnchanged

\* [ICSScheduleItem(schedule_item=item).to_ics() for item in items], every
\* property taken by the library
SerializeItems ==
    /\ phase = "returned"
    /\ "added" \in add_rrule_outcomes
    /\ phase' = "serialized"
    /\ vevents' = [k \in 1..Len(result.items) |-> to_ics(result.items[k])]
    /\ UNCHANGED <<data, start_year, semester_start, semester_end, day_i, ev_i,
                   schedule_items, result, error, ics_content, file_written,
                   main_dates>>
    /\ UNCHANGED <<item, rule, rule_raised, rrule_out>>

\* the same comprehension when the library raises at the recurrence rule of
\* the first item that has one: no list of event blocks comes to exist
SerializeItemsRaises ==
    /\ phase = "returned"
    /\ "raises" \in add_rrule_outcomes
    /\ \E k \in 1..Len(result.items) : Event(result.items[k]).rrule # <<>>
    /\ phase' = "serialize_failed"
    /\ error' = "Exception"
    /\ UNCHANGED <<data, start_year, semester_start, semester_end, day_i, ev_i,
                   schedule_items, result, vevents, ics_content, file_written,
                   main_dates>>
    /\ UNCHANGED <<item, rule, rule_raised, rrule_out>>

\* create_ics_calendar(events)
AssembleCalendar ==
    /\ phase = "serialized"
    /\ phase' = "assembled"
    /\ ics_content' = create_ics_calendar(vevents)
    /\ UNCHANGED <<data, start_year, semester_start, semester_end, day_i, ev_i,
                   schedule_items, result, error, vevents, file_written,
                   main_dates>>
    /\ UNCHANGED <<item, rule, rule_raised, rrule_out>>

\* with open(output_path, "w") as f: f.write(ics_content): the last step of
\* the run, after every call that can raise
WriteFile ==
    /\ phase = "assembled"
    /\ phase' = "written"
    /\ file_written' = TRUE
    /\ UNCHANGED <<data, start_year, semester_start, semester_end, day_i, ev_i,
                   schedule_items, result, error, vevents, ics_content,
                   main_dates>>
    /\ UNCHANGED <<item, rule, rule_raised, rrule_out>>

ParserNext ==
    \/ NewParser
    \/ ParseCall
    \/ ParseUnknownDay
    \/ ParseKnownDay
    \/ ParseEventSkipped
    \/ ParseEventRaises
    \/ ParseEventParity
    \/ ParseEventDates
    \/ ParseEventWeekly
    \/ ParseReturn
    \/ SerializeItems
    \/ SerializeItemsRaises
    \/ AssembleCalendar
    \/ WriteFile

\* several records per document, two start years; two records per
\* document in the edge years
Init ==
    /\ \/ \E doc \in RecordDocuments, year \in RecordYearSet :
              ParserIdle("start", doc, year)
       \/ \E doc \in EdgeDocuments, year \in EdgeYears :
              ParserIdle("start", doc, year)
    /\ ObjectsIdle

Spec == Init /\ [][ParserNext]_vars

\* one record per document, every key, the start years YearMin..YearMax and
\* the edge years
DateYears == (YearMin..YearMax) \cup EdgeYears

InitDates ==
    /\ \E doc \in DateDocuments, year \in DateYears : ParserIdle("start", doc, year)
    /\ ObjectsIdle

SpecDates == InitDates /\ [][ParserNext]_vars

\* the entry point, run with or without its input file and with every pair
\* of answers to its two prompts
MainNext == \E file_exists \in BOOLEAN, in \in MainInputs : main(file_exists, in[1], in[2])

InitMain ==
    /\ ParserIdle("start", <<>>, 0)
    /\ ObjectsIdle

SpecMain == InitMain /\ [][MainNext]_vars

(***************************************************************************)
(* One ScheduleItem object under construction and assignment.              *)
(***************************************************************************)
ItemTimes == {DateTime(2025, 9, 1, 8 + h, 0) : h \in 0..MaxHours}

\* ScheduleItem(start_datetime=s, end_datetime=e, ...): when _validate
\* raises, no object comes to exist
ItemNew(s, e) ==
    /\ LET made == ScheduleItem(s, e, <<"M">>, <<"l">>, <<"1">>, <<"2">>, <<"I">>,
                                <<"C">>, NoRule)
       IN item' = IF made.raises
                  THEN [NoItem EXCEPT !.raised = TRUE]
                  ELSE [live |-> TRUE, raised |-> FALSE,
                        start_datetime |-> made.start_datetime,
                        end_datetime |-> made.end_datetime]
    /\ UNCHANGED <<parser_vars, rule, rule_raised, rrule_out>>

\* item.start_datetime = value: the value is stored, then _validate_dates runs
ItemSetStart(value) ==
    /\ item.live
    /\ item' = [item EXCEPT !.start_datetime = value,
                            !.raised = ValidateDatesRaises(TRUE, value, item.end_datetime)]
    /\ UNCHANGED <<parser_vars, rule, rule_raised, rrule_out>>

\* item.end_datetime = value: the value is stored, then _validate_dates runs
ItemSetEnd(value) ==
    /\ item.live
    /\ item' = [item EXCEPT !.end_datetime = value,
                            !.raised = ValidateDatesRaises(TRUE, item.start_datetime, value)]
    /\ UNCHANGED <<parser_vars, rule, rule_raised, rrule_out>>

ItemNext ==
    \/ \E s \in ItemTimes, e \in ItemTimes : ItemNew(s, e)
    \/ \E v \in ItemTimes : ItemSetStart(v)
    \/ \E v \in ItemTimes : ItemSetEnd(v)

InitItem ==
    /\ ParserIdle("idle", <<>>, 0)
    /\ ObjectsIdle

SpecItem == InitItem /\ [][ItemNext]_vars

(***************************************************************************)
(* One repeat rule object under construction, assignment and rendering.    *)
(***************************************************************************)
RuleWeekdays == {<<>>, <<0>>, <<4, 0>>, <<6, 2, 3>>}
RuleUntils ==
    {DateTime(2025, 12, 31, 0, 0), DateTime(2026, 1, 15, 0, 0), DateTime(2026, 5, 31, 23, 59)}
RuleCounts == {-1, 0, 1, 5, 12}
RuleEnds ==
    {NoEnd} \cup {EndByDate(u) : u \in RuleUntils} \cup {EndByCount(c) : c \in RuleCounts}
RuleIntervals == (-1)..MaxInterval

\* BaseRepeatRule.__init__ through a subclass: the end object is made before
\* the call, and raises for count < 1; self.interval = interval raises for
\* interval < 1; either way no rule comes to exist
RuleNew(made) ==
    /\ IF ~EndRaises(made.end) /\ IntervalOk(made.interval)
       THEN rule' = made /\ rule_raised' = FALSE
       ELSE rule' = NoRule /\ rule_raised' = TRUE
    /\ rrule_out' = <<>>

\* DailyRepeatRule(interval, end)
NewDaily ==
    /\ \E n \in RuleIntervals, e \in RuleEnds : RuleNew(DailyRepeatRule(n, e))
    /\ UNCHANGED <<parser_vars, item>>

\* WeeklyRepeatRule(weekdays, interval, end)
NewWeekly ==
    /\ \E w \in RuleWeekdays, n \in RuleIntervals, e \in RuleEnds :
           RuleNew(WeeklyRepeatRule(w, n, e))
    /\ UNCHANGED <<parser_vars, item>>

\* MonthlyRepeatRule(bymonthday, interval, end)
NewMonthly ==
    /\ \E d \in {-1, 0, 1, 31}, n \in RuleIntervals, e \in RuleEnds :
           RuleNew(MonthlyRepeatRule(d, n, e))
    /\ UNCHANGED <<parser_vars, item>>

\* YearlyRepeatRule(interval, end)
NewYearly ==
    /\ \E n \in RuleIntervals, e \in RuleEnds : RuleNew(YearlyRepeatRule(n, e))
    /\ UNCHANGED <<parser_vars, item>>

\* rule.interval = value; the assignment returns nothing
RuleSetInterval(value) ==
    /\ rule # NoRule
    /\ IF IntervalOk(value)
       THEN rule' = [rule EXCEPT !.interval = value] /\ rule_raised' = FALSE
       ELSE rule' = rule /\ rule_raised' = TRUE
    /\ rrule_out' = <<>>
    /\ UNCHANGED <<parser_vars, item>>

\* rule.end.count = value
RuleSetEndCount(value) ==
    /\ rule # NoRule
    /\ rule.end.kind = "EndByCount"
    /\ IF CountOk(value)
       THEN rule' = [rule EXCEPT !.end.count = value] /\ rule_raised' = FALSE
       ELSE rule' = rule /\ rule_raised' = TRUE
    /\ rrule_out' = <<>>
    /\ UNCHANGED <<parser_vars, item>>

\* rule.end.until = value
RuleSetEndUntil(value) ==
    /\ rule # NoRule
    /\ rule.end.kind = "EndByDate"
    /\ rule' = [rule EXCEPT !.end.until = value]
    /\ rule_raised' = FALSE
    /\ rrule_out' = <<>>
    /\ UNCHANGED <<parser_vars, item>>

\* rule.to_rrule_str()
RuleToRruleStr ==
    /\ rule # NoRule
    /\ rrule_out' = to_rrule_str(rule)
    /\ rule_raised' = FALSE
    /\ UNCHANGED <<parser_vars, item, rule>>

RuleNext ==
    \/ NewDaily
    \/ NewWeekly
    \/ NewMonthly
    \/ NewYearly
    \/ \E v \in RuleIntervals : RuleSetInterval(v)
    \/ \E v \in RuleCounts : RuleSetEndCount(v)
    \/ \E v \in RuleUntils : RuleSetEndUntil(v)
    \/ RuleToRruleStr

InitRule ==
    /\ ParserIdle("idle", <<>>, 0)
    /\ ObjectsIdle

SpecRule == InitRule /\ [][RuleNext]_vars

(***************************************************************************)
(* What the claims speak of.                                               *)
(***************************************************************************)
\* the record the inner loop is at, and its weekday
CurrentEvent == data[day_i].events[ev_i]
CurrentWeekday == weekday_map[data[day_i].key]

TrimmedDate(event) == Strip(Get(event, "dayDate"))

\* a complete record whose time string is of the form HH:MM
WellFormed(event) ==
    /\ ~Incomplete(event)
    /\ ~StrpTimeHM(Strip(Get(event, "dayTime"))).raises

\* the time of day of a well-formed record, in minutes
MinuteOfDay(event) ==
    LET f == Fields(Strip(Get(event, "dayTime")), ":")
    IN NumVal(f[1]) * 60 + NumVal(f[2])

\* one text standing in for every descriptive field's trimmed value
SameDescription(it, event) ==
    /\ it.subject = Strip(Get(event, "disciplName"))
    /\ it.lesson_type = Strip(Get(event, "disciplType"))
    /\ it.audience = Strip(Get(event, "audNum"))
    /\ it.building = Strip(Get(event, "buildNum"))
    /\ it.teacher = Strip(Get(event, "prepodName"))
    /\ it.department = Strip(Get(event, "orgUnitName"))

\* the entry starts at the record's time of day and ends 90 minutes later
LessonTimes(it, event) ==
    /\ it.start_datetime.hour * 60 + it.start_datetime.minute = MinuteOfDay(event)
    /\ it.start_datetime.second = 0
    /\ it.end_datetime = AddMinutes(it.start_datetime, 90)
    /\ Before(it.start_datetime, it.end_datetime)

(***************************************************************************)
(* C1: a well-formed record with a parity token, under any recognized      *)
(* weekday and start year, makes parse append exactly one entry: a Weekly  *)
(* rule on the record's weekday alone with interval 2, starting on that    *)
(* weekday, in an ISO week whose parity is the token's, on or after the    *)
(* semester start.                                                         *)
(***************************************************************************)
\* C1: the step on a parity record appends the one entry described above
C1_ParityEntry ==
    [][(AtEvent /\ WellFormed(CurrentEvent)
            /\ TrimmedDate(CurrentEvent) \in {Chet, Nechet})
        => /\ Len(schedule_items') = Len(schedule_items) + 1
           /\ SubSeq(schedule_items', 1, Len(schedule_items)) = schedule_items
           /\ LET it == schedule_items'[Len(schedule_items')]
              IN /\ it.repeat_rule.kind = "Weekly"
                 /\ it.repeat_rule.weekdays = <<CurrentWeekday>>
                 /\ it.repeat_rule.interval = 2
                 /\ WeekdayOf(it.start_datetime) = CurrentWeekday
                 /\ (IsoWeek(it.start_datetime) % 2 = 0)
                        <=> (TrimmedDate(CurrentEvent) = Chet)
                 /\ ~Before(it.start_datetime, semester_start)
                 /\ LessonTimes(it, CurrentEvent)]_vars

\* C1, reached: a parity entry whose weekday first falls in a week of the other parity:
\* the entry starts a week later, past the semester's first seven days
C1_Witness ==
    /\ phase = "returned"
    /\ Len(result.items) = 1
    /\ result.items[1].repeat_rule.kind = "Weekly"
    /\ result.items[1].repeat_rule.interval = 2
    /\ result.items[1].start_datetime.day > 7
    /\ IsoWeek(result.items[1].start_datetime) % 2 = 1

(***************************************************************************)
(* C2: a record whose dayTime is a range "HH:MM-HH:MM" and whose other     *)
(* required fields are non-empty does not make parse fail: only the start  *)
(* HH:MM is consumed, and every entry appended for the record starts at    *)
(* that time and ends 90 minutes later.                                    *)
(***************************************************************************)
IsRangeTime(s) ==
    LET f == Fields(s, "-")
    IN Len(f) = 2 /\ ~StrpTimeHM(f[1]).raises /\ ~StrpTimeHM(f[2]).raises

RangeStartMinute(s) ==
    LET t == StrpTimeHM(Fields(s, "-")[1])
    IN t.hour * 60 + t.minute

\* C2: the step on a complete record with a range time goes on and appends
\* entries at the range's start time
C2_RangeTimeConsumed ==
    [][(AtEvent /\ ~Incomplete(CurrentEvent)
            /\ IsRangeTime(Strip(Get(CurrentEvent, "dayTime"))))
        => /\ phase' = "parsing"
           /\ error' = ""
           /\ Len(schedule_items') > Len(schedule_items)
           /\ \A k \in (Len(schedule_items) + 1)..Len(schedule_items') :
                LET it == schedule_items'[k]
                IN /\ it.start_datetime.hour * 60 + it.start_datetime.minute
                        = RangeStartMinute(Strip(Get(CurrentEvent, "dayTime")))
                   /\ it.end_datetime = AddMinutes(it.start_datetime, 90)]_vars

(***************************************************************************)
(* C3: a well-formed record whose dayDate is empty makes parse append      *)
(* exactly one entry, with a Weekly rule of interval 1 ending by date, and *)
(* the lesson's occurrence on the semester end date, when that date falls  *)
(* on the record's weekday, is not after the rule's UNTIL timestamp.       *)
(***************************************************************************)
\* C3: the step on a record with an empty dayDate appends one weekly entry
\* whose UNTIL is not before the lesson on the semester end date
C3_UntilCoversSemesterEnd ==
    [][(AtEvent /\ WellFormed(CurrentEvent) /\ TrimmedDate(CurrentEvent) = <<>>)
        => /\ Len(schedule_items') = Len(schedule_items) + 1
           /\ LET it   == schedule_items'[Len(schedule_items')]
                  last == [semester_end EXCEPT !.hour = it.start_datetime.hour,
                                               !.minute = it.start_datetime.minute]
              IN /\ it.repeat_rule.kind = "Weekly"
                 /\ it.repeat_rule.interval = 1
                 /\ it.repeat_rule.end.kind = "EndByDate"
                 /\ WeekdayOf(semester_end) = CurrentWeekday
                        => ~Before(it.repeat_rule.end.until, last)]_vars

(***************************************************************************)
(* C4: a well-formed record whose trimmed dayDate is not empty, is not a   *)
(* parity token and consists of valid DD.MM fragments makes parse append   *)
(* exactly one entry per fragment, in fragment order, each without a       *)
(* repeat rule and dated DD.MM of the start year.  As amended the start    *)
(* year has four digits and no lesson of the record ends after             *)
(* 31 December 9999.                                                       *)
(***************************************************************************)
ValidFragment(f, year) ==
    LET p == Fields(f, ".")
    IN /\ Len(p) = 2
       /\ MatchesDay(p[1])
       /\ MatchesMonth(p[2])
       /\ NumVal(p[1]) <= DaysInMonth(year, NumVal(p[2]))

DateFragments(event) == Split(TrimmedDate(event))

IsDateList(event, year) ==
    /\ TrimmedDate(event) # <<>>
    /\ TrimmedDate(event) \notin {Chet, Nechet}
    /\ \A k \in 1..Len(DateFragments(event)) : ValidFragment(DateFragments(event)[k], year)

\* the step on the current record appends one dated entry per fragment
EntryPerFragment ==
    LET frags == DateFragments(CurrentEvent)
        n     == Len(schedule_items)
    IN /\ Len(schedule_items') = n + Len(frags)
       /\ SubSeq(schedule_items', 1, n) = schedule_items
       /\ \A k \in 1..Len(frags) :
            LET it == schedule_items'[n + k]
                p  == Fields(frags[k], ".")
            IN /\ it.repeat_rule = NoRule
               /\ it.start_datetime.year = start_year
               /\ it.start_datetime.month = NumVal(p[2])
               /\ it.start_datetime.day = NumVal(p[1])
               /\ LessonTimes(it, CurrentEvent)
               /\ SameDescription(it, CurrentEvent)

\* the start year is written with four digits in a date text
FourDigitYear(year) == year >= 1000 /\ year <= 9999

\* a lesson of the record would end after 31 December 9999: the year is
\* 9999, a fragment is 31.12 and the lesson starts at 22:30 or later
EndsAfterLastDay(event, year) ==
    /\ year = 9999
    /\ MinuteOfDay(event) + LessonMinutes >= 24 * 60
    /\ \E k \in 1..Len(DateFragments(event)) :
         LET p == Fields(DateFragments(event)[k], ".")
         IN NumVal(p[1]) = 31 /\ NumVal(p[2]) = 12

\* C4 as stated, for every start year: the step on a date-list record
\* appends one dated entry per fragment
C4_AnyYearEntryPerFragment ==
    [][(AtEvent /\ WellFormed(CurrentEvent) /\ IsDateList(CurrentEvent, start_year))
        => EntryPerFragment]_vars

\* C4 as amended: the step on a date-list record appends one dated entry per
\* fragment when the start year has four digits and no lesson of the record
\* ends after 31 December 9999
C4_EntryPerFragment ==
    [][(AtEvent /\ WellFormed(CurrentEvent) /\ IsDateList(CurrentEvent, start_year)
            /\ FourDigitYear(start_year)
            /\ ~EndsAfterLastDay(CurrentEvent, start_year))
        => EntryPerFragment]_vars

\* C4, reached: the two entries of "05.09 12.09" in the year 9999
C4_Witness ==
    /\ phase = "returned"
    /\ start_year = 9999
    /\ Len(result.items) = 2
    /\ \A k \in 1..2 :
         /\ result.items[k].repeat_rule = NoRule
         /\ result.items[k].start_datetime.year = 9999
         /\ result.items[k].start_datetime.month = 9
         /\ result.items[k].start_datetime.hour = 9
    /\ result.items[1].start_datetime.day = 5
    /\ result.items[2].start_datetime.day = 12

(***************************************************************************)
(* C5: a ScheduleItem that exists has start_datetime strictly before       *)
(* end_datetime, whatever was assigned to either, accepted or rejected.    *)
(***************************************************************************)
\* C5: start < end in every state of a ScheduleItem
C5_StartBeforeEnd ==
    item.live => Before(item.start_datetime, item.end_datetime)

(***************************************************************************)
(* C6: to_rrule_str of a Weekly rule is FREQ=WEEKLY, then BYDAY= and the   *)
(* codes in stored order when there are weekdays, then INTERVAL=<n>, then  *)
(* UNTIL=<YYYYMMDDTHHMMSS> or COUNT=<n> when there is an end, joined by    *)
(* ";" and nothing else.                                                   *)
(***************************************************************************)
ExpectedWeekly(r) ==
    Join(<< <<"FREQ=WEEKLY">> >>
         \o (IF r.weekdays # <<>>
             THEN << <<"BYDAY=">> \o Join([k \in 1..Len(r.weekdays) |->
                                              <<WeekdayIcal[r.weekdays[k] + 1]>>], ",") >>
             ELSE <<>>)
         \o << <<"INTERVAL=">> \o Decimal(r.interval) >>
         \o (CASE r.end.kind = "EndByDate" -> << <<"UNTIL=">> \o StrfTime(r.end.until) >>
               [] r.end.kind = "EndByCount" -> << <<"COUNT=">> \o Decimal(r.end.count) >>
               [] OTHER -> <<>>),
         ";")

\* C6: what to_rrule_str returned for a Weekly rule is the expected string
C6_WeeklyRruleFormat ==
    (rule.kind = "Weekly" /\ rrule_out # <<>>) => rrule_out = ExpectedWeekly(rule)

(***************************************************************************)
(* C7: the entry point's run with the dates entered constructs the parser  *)
(* with those dates as its semester window, and no error ends the run.     *)
(***************************************************************************)
\* C7: once main has read its dates, the parser holds them and no error is raised
C7_WindowSupplied ==
    main_dates.set
        => /\ error = ""
           /\ semester_start = main_dates.start_date
           /\ semester_end = main_dates.end_date

(***************************************************************************)
(* C8: parse ends for a document as it ends for the same document without  *)
(* the records, under recognized weekdays, that lack a required field or   *)
(* have it blank: the same error or none, and the same entries.            *)
(***************************************************************************)
Recognized(key) == key \in {"1", "2", "3", "4", "5", "6", "7"}

RECURSIVE Complete(_)
Complete(events) ==
    IF events = <<>> THEN <<>>
    ELSE (IF Incomplete(Head(events)) THEN <<>> ELSE <<Head(events)>>)
             \o Complete(Tail(events))

WithoutIncomplete(doc) ==
    [d \in 1..Len(doc) |->
        IF Recognized(doc[d].key) THEN Day(doc[d].key, Complete(doc[d].events))
        ELSE doc[d]]

\* parse as a function of the document: the error or the list returned
RECURSIVE ParseEvents(_, _, _)
ParseEvents(events, target_weekday, items) ==
    IF events = <<>> THEN [raised |-> FALSE, items |-> items]
    ELSE LET o == ParseEvent(Head(events), target_weekday)
         IN IF o.kind \in {"time_error", "date_error", "item_error", "overflow_error"}
            THEN [raised |-> TRUE, items |-> <<>>]
            ELSE ParseEvents(Tail(events), target_weekday, items \o o.items)

RECURSIVE ParseDocument(_, _)
ParseDocument(doc, items) ==
    IF doc = <<>> THEN [raised |-> FALSE, items |-> items]
    ELSE IF Head(doc).key \notin DOMAIN weekday_map THEN ParseDocument(Tail(doc), items)
    ELSE LET r == ParseEvents(Head(doc).events, weekday_map[Head(doc).key], items)
         IN IF r.raised THEN r ELSE ParseDocument(Tail(doc), r.items)

\* C8: the end of parse is that of the document without incomplete records
C8_IncompleteAsAbsent ==
    phase \in {"returned", "raised"}
        => LET ref == ParseDocument(WithoutIncomplete(data), <<>>)
           IN /\ (phase = "raised") <=> ref.raised
              /\ phase = "returned" => result.items = ref.items
              /\ (error = "") <=> ~ref.raised

\* C8, reached: an incomplete record between two complete ones, whose
\* entries are returned
C8_Witness ==
    /\ phase = "returned"
    /\ \E d \in 1..Len(data) :
         /\ Recognized(data[d].key)
         /\ Len(data[d].events) = 3
         /\ ~Incomplete(data[d].events[1])
         /\ Incomplete(data[d].events[2])
         /\ "prepodName" \notin DOMAIN data[d].events[2]
         /\ ~Incomplete(data[d].events[3])
    /\ Len(result.items) = 2

(***************************************************************************)
(* C9: when a complete record of the document has an unparseable time      *)
(* string or an unparseable date fragment, the run ends in an error:       *)
(* parse returns no list, no calendar is built and no file is written.  A  *)
(* file is written only after parse has returned its list.  As amended the *)
(* record is one under a recognized weekday key.                           *)
(***************************************************************************)
Malformed(event, year) ==
    /\ ~Incomplete(event)
    /\ \/ StrpTimeHM(Strip(Get(event, "dayTime"))).raises
       \/ /\ TrimmedDate(event) # <<>>
          /\ TrimmedDate(event) \notin {Chet, Nechet}
          /\ \E k \in 1..Len(DateFragments(event)) :
                ~ValidFragment(DateFragments(event)[k], year)

\* parse has not returned and will not: no list, no event block, no
\* calendar, no file; a run that has ended has ended in an error
NothingReturned ==
    /\ result = NoResult
    /\ phase \in {"start", "constructed", "parsing", "construct_failed", "raised"}
    /\ ~(phase = "parsing" /\ day_i > Len(data))
    /\ phase \in {"construct_failed", "raised"} => error # ""
    /\ vevents = <<>>
    /\ ics_content = <<>>
    /\ ~file_written

\* a file is there only at the end of a run in which parse returned its
\* list and nothing raised
WrittenAfterParse ==
    file_written => /\ phase = "written"
                    /\ result.returned
                    /\ result.items = schedule_items
                    /\ error = ""

\* C9 as stated, for a malformed complete record under any key
C9_AnyMalformedAborts ==
    /\ (\E d \in 1..Len(data) : \E e \in 1..Len(data[d].events) :
           Malformed(data[d].events[e], start_year))
           => NothingReturned
    /\ WrittenAfterParse

\* C9 as amended, for a malformed complete record under a recognized key;
\* and a file is written only after parse has returned
C9_MalformedAborts ==
    /\ (\E d \in 1..Len(data) :
           /\ Recognized(data[d].key)
           /\ \E e \in 1..Len(data[d].events) :
                Malformed(data[d].events[e], start_year))
           => NothingReturned
    /\ WrittenAfterParse

\* C9, reached: the malformed record is met after entries were appended, and
\* they are lost
C9_Witness ==
    /\ phase = "raised"
    /\ error = "ValueError"
    /\ Len(schedule_items) >= 2
    /\ result = NoResult
    /\ Malformed(CurrentEvent, start_year)

(***************************************************************************)
(* C10: the calendar built from the serialized entries of a parse begins   *)
(* with the three header lines, ends with END:VCALENDAR, holds one         *)
(* BEGIN:VCALENDAR and one END:VCALENDAR, and between header and footer    *)
(* the event blocks, one per entry, unchanged and in the entries' order.   *)
(***************************************************************************)
Count(s, x) == Cardinality({k \in 1..Len(s) : s[k] = x})

Contains(s, sub) ==
    \E k \in 0..(Len(s) - Len(sub)) : SubSeq(s, k + 1, k + Len(sub)) = sub

RECURSIVE Blocks(_)
Blocks(events) ==
    IF events = <<>> THEN <<>> ELSE Head(events) \o <<"\n">> \o Blocks(Tail(events))

RECURSIVE RecordTags(_, _, _)
RecordTags(doc, d, e) ==
    IF e > Len(doc[d].events) THEN <<>>
    ELSE LET n == Len(ParseEvent(doc[d].events[e], weekday_map[doc[d].key]).items)
         IN [k \in 1..n |-> <<d, e, k>>] \o RecordTags(doc, d, e + 1)

RECURSIVE DayTags(_, _)
DayTags(doc, d) ==
    IF d > Len(doc) THEN <<>>
    ELSE (IF Recognized(doc[d].key) THEN RecordTags(doc, d, 1) ELSE <<>>)
             \o DayTags(doc, d + 1)

\* the day and month written in a DD.MM fragment
FragmentDay(f) == NumVal(Fields(f, ".")[1])
FragmentMonth(f) == NumVal(Fields(f, ".")[2])

\* C11: the entry at each position of the returned list is the one of the
\* document's place at that position, dated by the fragment of that place
C11_SourceOrder ==
    phase = "returned"
        => LET tags == DayTags(data, 1)
           IN /\ Len(result.items) = Len(tags)
              /\ \A p \in 1..Len(tags) :
                   LET event == data[tags[p][1]].events[tags[p][2]]
                       wd    == weekday_map[data[tags[p][1]].key]
                       it    == result.items[p]
                   IN /\ it = ParseEvent(event, wd).items[tags[p][3]]
                      /\ WeekdayOf(it.start_datetime) = wd
                             \/ TrimmedDate(event) \notin {<<>>, Chet, Nechet}
                      /\ IsDateList(event, start_year)
                           => /\ it.start_datetime.day
                                   = FragmentDay(DateFragments(event)[tags[p][3]])
                              /\ it.start_datetime.month
                                   = FragmentMonth(DateFragments(event)[tags[p][3]])

\* C11, reached: a list returned out of date order, a record of two
\* fragments before a parity record, and an unrecognized key passed over
C11_Witness ==
    /\ phase = "returned"
    /\ Len(result.items) >= 3
    /\ \E p \in 1..(Len(result.items) - 1) :
         Before(result.items[p + 1].start_datetime, result.items[p].start_datetime)
    /\ result.items[1].start_datetime.month = result.items[2].start_datetime.month
    /\ result.items[1].start_datetime.day < result.items[2].start_datetime.day
    /\ \E d \in 1..Len(data) : ~Recognized(data[d].key) /\ data[d].events # <<>>

(***************************************************************************)
(* C12: a repeat rule's interval is at least 1 in every state.  No rule    *)
(* is constructed with an interval below 1; an assignment of a value below *)
(* 1 raises an error and leaves the stored interval as it was.             *)
(***************************************************************************)
\* the rules a constructor call can ask for with the given interval, with
\* no end, an end by date and an end by count
AskedEnds == {NoEnd, EndByDate(DateTime(2025, 12, 31, 0, 0)), EndByCount(12)}
RulesAsked(n) ==
    {DailyRepeatRule(n, e) : e \in AskedEnds}
        \cup {YearlyRepeatRule(n, e) : e \in AskedEnds}
        \cup {WeeklyRepeatRule(w, n, e) : w \in RuleWeekdays, e \in AskedEnds}
        \cup {MonthlyRepeatRule(d, n, e) : d \in {-1, 0, 1, 31}, e \in AskedEnds}

\* C12: every step keeps the interval >= 1; construction with a value
\* below 1 leaves no rule and raises; assignment of a value below 1 raises
\* and leaves the rule as it was
C12_IntervalAtLeastOne ==
    [][/\ rule # NoRule => rule.interval >= 1
       /\ rule' # NoRule => rule'.interval >= 1
       /\ \A n \in RuleIntervals :
            n < 1 => /\ \A made \in RulesAsked(n) :
                           RuleNew(made) => (rule' = NoRule /\ rule_raised')
                     /\ RuleSetInterval(n) => (rule' = rule /\ rule_raised')
       /\ (rule # NoRule /\ rule' # NoRule /\ rule_raised') => rule' = rule]_vars

\* C12, reached: a rule whose interval was set to 3 and that has since
\* turned an assignment away
C12_Witness ==
    /\ rule # NoRule
    /\ rule.end = NoEnd
    /\ rule_raised
    /\ rule.interval = 3

(***************************************************************************)
(* C13: for each kind of rule, what to_rrule_str returns has exactly one   *)
(* FREQ= component, and it names the rule's own frequency.                 *)
(***************************************************************************)
FreqComponents == {"FREQ=DAILY", "FREQ=WEEKLY", "FREQ=MONTHLY", "FREQ=YEARLY"}

OwnFreq(r) ==
    CASE r.kind = "Daily" -> "FREQ=DAILY"
      [] r.kind = "Weekly" -> "FREQ=WEEKLY"
      [] r.kind = "Monthly" -> "FREQ=MONTHLY"
      [] r.kind = "Yearly" -> "FREQ=YEARLY"

\* C13: the string returned for a rule has one FREQ component, the rule's own
C13_OneOwnFreq ==
    (rule # NoRule /\ rrule_out # <<>>)
        => /\ Cardinality({k \in 1..Len(rrule_out) : rrule_out[k] \in FreqComponents}) = 1
           /\ \A k \in 1..Len(rrule_out) :
                rrule_out[k] \in FreqComponents => rrule_out[k] = OwnFreq(rule)

(***************************************************************************)
(* C14: under every start year and recognized weekday, the every-week      *)
(* entry of a record with an empty dayDate starts on the first day, on or  *)
(* after the semester start, that falls on the record's weekday: within    *)
(* the semester's first seven days, so that no week is left out.           *)
(***************************************************************************)
\* C14: the step on a record with an empty dayDate appends an entry dated
\* on the record's weekday within seven days of the semester start
C14_WeeklyFromFirstWeek ==
    [][(AtEvent /\ WellFormed(CurrentEvent) /\ TrimmedDate(CurrentEvent) = <<>>)
        => /\ Len(schedule_items') = Len(schedule_items) + 1
           /\ LET it == schedule_items'[Len(schedule_items')]
              IN /\ WeekdayOf(it.start_datetime) = CurrentWeekday
                 /\ ToOrdinal(it.start_datetime) - ToOrdinal(semester_start) \in 0..6
                 /\ it.repeat_rule.kind = "Weekly"
                 /\ it.repeat_rule.interval = 1]_vars

====
